---- MODULE Spec2Model ----
(***************************************************************************)
(* State-machine model of plugins/inputs/execd/execd.go: the Execd input   *)
(* (Init, SetParser, Start, Stop) and the three readers it hands to the    *)
(* process supervisor: cmdReadOut (newline-delimited records through a     *)
(* bufio.Reader), cmdReadOutStream (influx stream decoder) and cmdReadErr  *)
(* (stderr lines routed to the logger).  The process supervisor and the    *)
(* child's pipes are the environment.                                      *)
(***************************************************************************)
EXTENDS Integers, Sequences, FiniteSets, TLC

\* ------------------------------------------------------------------ bounds
NumInst == 2         \* Execd instances living in the hosting process
MaxStream == 3       \* bytes a child writes to stdout
MaxBufferSize == 2   \* largest buffer_size drawn (records may be longer)
MaxReadErrs == 1     \* non-EOF read errors injected into one stdout stream
MaxMetrics == 2      \* metrics one Parse call may return
MaxEvents == 4       \* results the stream decoder yields before influx.EOF
MaxLines == 2        \* lines a child writes to stderr
MaxRuns == 2         \* children the supervisor runs for one handle (restarts + 1)

Inst == 1..NumInst

NL == "\n"
Bytes == {"m", NL}

\* error values of the readers
ErrNil == "nil"
ErrEOF == "io.EOF"
ErrClosed == "os.ErrClosed"
ErrIO == "EIO"

ErrTooLong == "bufio.ErrTooLong"

NoMetricsCreatedMsg == "NoMetricsCreated"

\* bufio.MaxScanTokenSize, the token limit of a Scanner made by bufio.NewScanner
MaxScanTokenSize == 65536

VARIABLES
  e,        \* [Inst -> Execd]: the struct's configuration and private fields
  life,     \* [Inst -> position of the host in the plugin's lifecycle]
  ret,      \* [Inst -> values returned by Init and Start]
  sup,      \* [Inst -> calls made to the process supervisor, in order]
  acc,      \* [Inst -> calls made to the accumulator (sink), in order]
  log,      \* [Inst -> calls made to e.Log, in order]
  once,     \* the package-level sync.Once
  rd,       \* [Inst -> cmdReadOut: its bufio.Reader, its locals, its position]
  parsed,   \* [Inst -> calls cmdReadOut made to e.parser.Parse, with results]
  wrote,    \* [Inst -> the bytes the current child wrote to stdout]
  sp,       \* [Inst -> cmdReadOutStream: decoder and position]
  sc,       \* [Inst -> cmdReadErr: scanner and position]
  child     \* [Inst -> the child process: how many were run, which pipes are open]

vars == <<e, life, ret, sup, acc, log, once, rd, parsed, wrote, sp, sc, child>>

\* ----------------------------------------------------------------- helpers
Min(a, b) == IF a < b THEN a ELSE b

Take(s, n) == SubSeq(s, 1, n)

Drop(s, n) == SubSeq(s, n + 1, Len(s))

\* bytes.IndexByte, 1-based; 0 when c is absent
IndexByte(s, c) ==
  IF \E k \in 1..Len(s) : s[k] = c
  THEN CHOOSE k \in 1..Len(s) : s[k] = c /\ \A j \in 1..(k - 1) : s[j] # c
  ELSE 0

SeqsUpTo(S, n) == UNION {[1..k -> S] : k \in 0..n}

\* ------------------------------------------------------------- accumulator
AddMetric(c, k) == [op |-> "AddMetric", kind |-> "metric", ref |-> <<c, k>>]

AddError(kind, c) == [op |-> "AddError", kind |-> kind, ref |-> <<c, 0>>]

\* the AddMetric calls of `for _, metric := range metrics`, call c returned n
Forward(c, n) == [k \in 1..n |-> AddMetric(c, k)]

LogCall(level, msg) == [level |-> level, msg |-> msg]

\* ------------------------------------------------------------ bufio.Reader
\* rdr := bufio.NewReaderSize(out, int(e.BufferSize)).  buf is b.buf[b.r:b.w];
\* fill() slides it to the front, so the room left is size - Len(buf).
\* Sizes stand for effective sizes (NewReaderSize raises small ones to its floor).
\* faults: how many reads of this pipe the environment lets fail (non-EOF).
\* reads: what each `data, err := rdr.ReadBytes('\n')` returned, in call order.
NewReaderSize(out, size, faults) ==
  [pc |-> "read", pipe |-> out, size |-> size, buf |-> <<>>, err |-> ErrNil,
   frags |-> <<>>, data |-> <<>>, faults |-> faults, ioErrs |-> 0,
   dropped |-> <<>>, reads |-> <<>>]

IdleReader ==
  [pc |-> "idle", pipe |-> <<>>, size |-> 0, buf |-> <<>>, err |-> ErrNil,
   frags |-> <<>>, data |-> <<>>, faults |-> 0, ioErrs |-> 0, dropped |-> <<>>,
   reads |-> <<>>]

\* one return of ReadBytes
ReadResult(data, err) == [data |-> data, err |-> err]

\* collectFragments: a full buffer without delimiter is kept and reading goes on
CollectLoseFull(frags, frag) == frag

Collect(frags, frag) == frags \o frag

\* ReadSlice, delimiter in the buffer: ReadBytes returns the record, err == nil
ReadBytesLine(i) ==
  /\ rd[i].pc = "read"
  /\ IndexByte(rd[i].buf, NL) > 0
  /\ LET k == IndexByte(rd[i].buf, NL)
     IN rd' = [rd EXCEPT ![i].data = Collect(rd[i].frags, Take(rd[i].buf, k)),
                         ![i].buf = Drop(rd[i].buf, k),
                         ![i].frags = <<>>,
                         ![i].reads = Append(@, ReadResult(
                                        Collect(rd[i].frags, Take(rd[i].buf, k)), ErrNil)),
                         ![i].pc = "parse"]
  /\ UNCHANGED <<e, life, ret, sup, acc, log, once, parsed, wrote, sp, sc, child>>

\* the branch taken on `if err != nil` after ReadBytes
IsEndAnyError(err) == err # ErrNil

IsEnd(err) == err \in {ErrEOF, ErrClosed}

\* what the reader keeps of the bytes ReadBytes returned with an error: they
\* left the buffer, and cmdReadOut drops its `data` on both error paths
KeptForNextRecord(data) == data

Discarded(data) == <<>>

\* ReadSlice, no delimiter and a pending error: ReadBytes returns what was read
\* together with the error; cmdReadOut breaks on EOF/closed, else reports and
\* continues.  `data` is not used on either path.
ReadBytesErr(i) ==
  /\ rd[i].pc = "read"
  /\ IndexByte(rd[i].buf, NL) = 0
  /\ rd[i].err # ErrNil
  /\ LET data == Collect(rd[i].frags, rd[i].buf)
     IN /\ rd' = [rd EXCEPT ![i].buf = <<>>,
                            ![i].frags = Discarded(data),
                            ![i].err = ErrNil,
                            ![i].dropped = @ \o data,
                            ![i].reads = Append(@, ReadResult(data, rd[i].err)),
                            ![i].pc = IF IsEnd(rd[i].err) THEN "done" ELSE "read"]
        /\ acc' = [acc EXCEPT ![i] =
                     IF IsEnd(rd[i].err) THEN @
                     ELSE Append(@, AddError("error reading stdout", 0))]
  /\ UNCHANGED <<e, life, ret, sup, log, once, parsed, wrote, sp, sc, child>>

\* ReadSlice, buffer full without delimiter: ErrBufferFull, fragment collected
ReadBytesFull(i) ==
  /\ rd[i].pc = "read"
  /\ IndexByte(rd[i].buf, NL) = 0
  /\ rd[i].err = ErrNil
  /\ Len(rd[i].buf) >= rd[i].size
  /\ rd' = [rd EXCEPT ![i].frags = Collect(@, rd[i].buf), ![i].buf = <<>>]
  /\ UNCHANGED <<e, life, ret, sup, acc, log, once, parsed, wrote, sp, sc, child>>

\* fill(): one Read of the pipe into the room left.  A Read blocks until it has
\* bytes or an error; the end of the stream is reported once the pipe is empty
\* and its write end is closed.
ReadBytesFill(i) ==
  /\ rd[i].pc = "read"
  /\ IndexByte(rd[i].buf, NL) = 0
  /\ rd[i].err = ErrNil
  /\ Len(rd[i].buf) < rd[i].size
  /\ \E n \in 0..Min(rd[i].size - Len(rd[i].buf), Len(rd[i].pipe)),
        er \in {ErrNil, ErrEOF, ErrClosed, ErrIO} :
       /\ n = 0 => er # ErrNil
       /\ IsEnd(er) => n = Len(rd[i].pipe) /\ ~child[i].out
       /\ er = ErrIO => rd[i].ioErrs < rd[i].faults
       /\ rd' = [rd EXCEPT ![i].buf = @ \o Take(rd[i].pipe, n),
                           ![i].pipe = Drop(@, n),
                           ![i].err = er,
                           ![i].ioErrs = IF er = ErrIO THEN @ + 1 ELSE @]
  /\ UNCHANGED <<e, life, ret, sup, acc, log, once, parsed, wrote, sp, sc, child>>

\* ------------------------------------------------------------------ parser
\* e.parser.Parse(data): the parser is a collaborator; no metric or several
\* may come back, with or without an error.
ParseOutcomes == [n : {0, MaxMetrics}, err : BOOLEAN]

\* `if err != nil { AddError }` has no continue: the rest of the body runs
ParseError(c, failed) == IF failed THEN <<AddError("parse error", c)>> ELSE <<>>

\* where the loop goes after Parse: once.Do when no metric came back, else the
\* next ReadBytes (the forwarding loop is part of the Parse step)
AfterParseStopOnError(n, failed) ==
  IF failed THEN "done" ELSE IF n = 0 THEN "once" ELSE "read"

AfterParseWaits(n, failed) == IF n = 0 THEN "once" ELSE "wait"

AfterParse(n, failed) == IF n = 0 THEN "once" ELSE "read"

\* lines 111-124 up to once.Do: parse, report, then notice or forward
Parse(i) ==
  /\ rd[i].pc = "parse"
  /\ \E o \in ParseOutcomes :
       LET c == Len(parsed[i]) + 1
       IN /\ parsed' = [parsed EXCEPT ![i] =
                          Append(@, [data |-> rd[i].data, n |-> o.n, err |-> o.err])]
          /\ acc' = [acc EXCEPT ![i] = @ \o ParseError(c, o.err) \o Forward(c, o.n)]
          /\ rd' = [rd EXCEPT ![i].pc = AfterParse(o.n, o.err)]
  /\ UNCHANGED <<e, life, ret, sup, log, once, wrote, sp, sc, child>>

\* --------------------------------------------------------------- sync.Once
\* Do: `if o.done.Load() == 0 { o.doSlow(f) }`
OnceDo(i) ==
  /\ rd[i].pc = "once"
  /\ rd' = [rd EXCEPT ![i].pc = IF once.done THEN "read" ELSE "doSlow"]
  /\ UNCHANGED <<e, life, ret, sup, acc, log, once, parsed, wrote, sp, sc, child>>

\* doSlow's test under the mutex: `if o.done.Load() == 0`
DoSlowUnchecked(o) == TRUE

DoSlowRuns(o) == ~o.done

\* doSlow: the mutex makes the test, f() and the store one step
OnceDoSlow(i) ==
  /\ rd[i].pc = "doSlow"
  /\ IF DoSlowRuns(once)
     THEN /\ log' = [log EXCEPT ![i] = Append(@, LogCall("Debug", NoMetricsCreatedMsg))]
          /\ once' = [once EXCEPT !.done = TRUE]
     ELSE UNCHANGED <<log, once>>
  /\ rd' = [rd EXCEPT ![i].pc = "read"]
  /\ UNCHANGED <<e, life, ret, sup, acc, parsed, wrote, sp, sc, child>>

cmdReadOut(i) ==
  \/ ReadBytesLine(i)
  \/ ReadBytesErr(i)
  \/ ReadBytesFull(i)
  \/ ReadBytesFill(i)
  \/ Parse(i)
  \/ OnceDo(i)
  \/ OnceDoSlow(i)

\* ------------------------------------------------------------ configuration
Contains(s, c) == \E k \in 1..Len(s) : s[k] = c

\* command lists; an argument is its characters
Commands ==
  { <<>>,
    << <<"p">> >>,
    << <<"p", " ", "x">> >>,
    << <<"p">>, <<"x">> >>,
    << <<"p", " ", "x">>, <<"y">> >> }

\* signal, restart_delay (seconds), stop_on_error: the defaults and one other
Settings ==
  { [Signal |-> "none", RestartDelay |-> 10, StopOnError |-> FALSE],
    [Signal |-> "SIGHUP", RestartDelay |-> 0, StopOnError |-> TRUE] }

BufferSizes == 1..MaxBufferSize

\* what SetParser can be given: telegraf.Parser values by dynamic type
Parsers == {"RunningParser(influx)", "RunningParser(other)", "influx", "other"}

\* process.Process; nil |-> TRUE is the nil pointer
NoProcess ==
  [nil |-> TRUE, Command |-> <<>>, ReadStdoutFn |-> "nil", ReadStderrFn |-> "nil",
   RestartDelay |-> 0, StopOnError |-> FALSE, Log |-> "nil", Signal |-> "none"]

\* the struct as the registered constructor and the configuration loader leave
\* it (lines 29-42, 178-185)
Execd(command, size, signal, delay, stop) ==
  [Command |-> command, BufferSize |-> size, Signal |-> signal,
   RestartDelay |-> delay, StopOnError |-> stop, Log |-> "Log",
   process |-> NoProcess, acc |-> "nil", parser |-> "nil", outputReader |-> "nil"]

Configs ==
  {Execd(c, b, s.Signal, s.RestartDelay, s.StopOnError) :
     c \in Commands, b \in BufferSizes, s \in Settings}

\* -------------------------------------------------------- cmdReadOutStream
\* parser := influx.NewStreamParser(out).  The decoder is a collaborator: the
\* child's output is what Next() will return call by call, then influx.EOF.
NextResults == {"metric", "ParseError", "error"}

\* src keeps what the decoder was given
NewStreamParser(out) ==
  [pc |-> "next", src |-> out, out |-> out, calls |-> 0, end |-> "nil"]

IdleStream == [pc |-> "idle", src |-> <<>>, out |-> <<>>, calls |-> 0, end |-> "nil"]

\* what Next() returns on the decoder's stream
DecoderNext(out) == IF out = <<>> THEN "EOF" ELSE Head(out)

\* the accumulator calls of one pass through the loop body, c-th call of Next
StreamCallsEOFReported(r, c) ==
  CASE r = "EOF" -> <<AddError("stream", c)>>
    [] r = "ParseError" -> <<AddError("ParseError", c)>>
    [] r = "error" -> <<AddError("stream", c)>>
    [] OTHER -> <<AddMetric(c, 1)>>

StreamCalls(r, c) ==
  CASE r = "EOF" -> <<>>
    [] r = "ParseError" -> <<AddError("ParseError", c)>>
    [] r = "error" -> <<AddError("stream", c)>>
    [] OTHER -> <<AddMetric(c, 1)>>

\* break on influx.EOF, return on an error that is no *influx.ParseError
StreamEndsNever(r) == r = "EOF"

StreamEndsOnParseError(r) == r \in {"EOF", "error", "ParseError"}

StreamEnds(r) == r \in {"EOF", "error"}

\* lines 143-145: after a fatal decode error the function reports and returns;
\* the plugin's lifecycle is not touched (no Stop)
LifeAfterNextStops(r, l) == IF r = "error" THEN "stopped" ELSE l

LifeAfterNext(r, l) == l

\* Next() blocks on an empty stream until the write end is closed
StreamNext(i) ==
  /\ sp[i].pc = "next"
  /\ sp[i].out = <<>> => ~child[i].out
  /\ LET r == DecoderNext(sp[i].out)
         c == sp[i].calls + 1
     IN /\ acc' = [acc EXCEPT ![i] = @ \o StreamCalls(r, c)]
        /\ sp' = [sp EXCEPT ![i].calls = c,
                            ![i].out = IF r = "EOF" THEN @ ELSE Tail(@),
                            ![i].end = IF StreamEnds(r) THEN r ELSE @,
                            ![i].pc = IF StreamEnds(r) THEN "done" ELSE "next"]
        /\ life' = [life EXCEPT ![i] = LifeAfterNext(r, @)]
  /\ UNCHANGED <<e, ret, sup, log, once, rd, parsed, wrote, child>>
  /\ UNCHANGED sc

cmdReadOutStream(i) == StreamNext(i)

\* --------------------------------------------------------------- cmdReadErr
\* scanner := bufio.NewScanner(out) over the lines of the child's stderr and
\* the error the pipe returns behind them ("nil": EOF).  A line is its text
\* followed by pad[k] more bytes, so that lines beyond the token limit can be
\* written down; src keeps the lines, n counts the ones Scan() delivered.
NewScannerPadded(lines, pad, err) ==
  [pc |-> "scan", src |-> lines, lines |-> lines, pad |-> pad, err |-> err, n |-> 0]

\* the same over lines that are their text only
NewScanner(lines, err) == NewScannerPadded(lines, [k \in 1..Len(lines) |-> 0], err)

IdleScanner ==
  [pc |-> "idle", src |-> <<>>, lines |-> <<>>, pad |-> <<>>, err |-> ErrNil, n |-> 0]

\* Scan() gives up on a line that fills the buffer at its largest size before
\* the line's end is seen
TooLong(length) == length >= MaxScanTokenSize

\* the next line of scanner s does not fit
NextTooLong(s) == s.lines # <<>> /\ TooLong(Len(Head(s.lines)) + s.pad[s.n + 1])

\* scanner.Err() once Scan() has returned false
ScannerErr(s) == IF NextTooLong(s) THEN ErrTooLong ELSE s.err

HasPrefix(s, prefix) == Len(s) >= Len(prefix) /\ Take(s, Len(prefix)) = prefix

\* fmt's %q: the text between double quotes, quotes and backslashes escaped
RECURSIVE Escape(_)
Escape(s) ==
  IF s = <<>> THEN <<>>
  ELSE (IF Head(s) \in {"\"", "\\"} THEN <<"\\", Head(s)>> ELSE <<Head(s)>>)
       \o Escape(Tail(s))

Quote(s) == <<"\"">> \o Escape(s) \o <<"\"">>

StderrPrefix == <<"s", "t", "d", "e", "r", "r", ":", " ">>

Prefix(letter) == <<letter, "!", " ">>

\* the switch of lines 157-170
RouteTokenOnly(msg) ==
  CASE HasPrefix(msg, <<"E", "!">>) -> LogCall("Error", Drop(msg, 3))
    [] HasPrefix(msg, <<"W", "!">>) -> LogCall("Warn", Drop(msg, 3))
    [] HasPrefix(msg, <<"I", "!">>) -> LogCall("Info", Drop(msg, 3))
    [] HasPrefix(msg, <<"D", "!">>) -> LogCall("Debug", Drop(msg, 3))
    [] HasPrefix(msg, <<"T", "!">>) -> LogCall("Trace", Drop(msg, 3))
    [] OTHER -> LogCall("Error", StderrPrefix \o Quote(msg))

Route(msg) ==
  CASE HasPrefix(msg, Prefix("E")) -> LogCall("Error", Drop(msg, 3))
    [] HasPrefix(msg, Prefix("W")) -> LogCall("Warn", Drop(msg, 3))
    [] HasPrefix(msg, Prefix("I")) -> LogCall("Info", Drop(msg, 3))
    [] HasPrefix(msg, Prefix("D")) -> LogCall("Debug", Drop(msg, 3))
    [] HasPrefix(msg, Prefix("T")) -> LogCall("Trace", Drop(msg, 3))
    [] OTHER -> LogCall("Error", StderrPrefix \o Quote(msg))

\* scanner.Scan() returned true: one line routed
ScanLine(i) ==
  /\ sc[i].pc = "scan"
  /\ sc[i].lines # <<>>
  /\ ~NextTooLong(sc[i])
  /\ log' = [log EXCEPT ![i] = Append(@, Route(Head(sc[i].lines)))]
  /\ sc' = [sc EXCEPT ![i].lines = Tail(@), ![i].n = @ + 1]
  /\ UNCHANGED <<e, life, ret, sup, acc, once, rd, parsed, wrote, sp, child>>

\* `if err := scanner.Err(); err != nil { e.acc.AddError(...) }`
ScanReportAlways(err) == <<AddError("error reading stderr", 0)>>

ScanReport(err) ==
  IF err # ErrNil THEN <<AddError("error reading stderr", 0)>> ELSE <<>>

\* scanner.Scan() returned false (a line too long, a read error, or the end of
\* the stream once the write end is closed): scanner.Err() is reported unless nil
ScanEnd(i) ==
  /\ sc[i].pc = "scan"
  /\ \/ NextTooLong(sc[i])
     \/ sc[i].lines = <<>> /\ (sc[i].err # ErrNil \/ ~child[i].err)
  /\ acc' = [acc EXCEPT ![i] = @ \o ScanReport(ScannerErr(sc[i]))]
  /\ sc' = [sc EXCEPT ![i].pc = "done"]
  /\ UNCHANGED <<e, life, ret, sup, log, once, rd, parsed, wrote, sp, child>>

cmdReadErr(i) == ScanLine(i) \/ ScanEnd(i)

\* ---------------------------------------------------------------- lifecycle
\* Init (lines 48-53): the error returned
InitNeverFails(command) == ErrNil

InitResult(command) == IF Len(command) = 0 THEN "no command specified" ELSE ErrNil

\* the host calls Init once on a freshly configured instance
ExecdInit(i) ==
  /\ life[i] = "new"
  /\ ret' = [ret EXCEPT ![i].init = InitResult(e[i].Command)]
  /\ life' = [life EXCEPT ![i] =
                IF InitResult(e[i].Command) = ErrNil THEN "initOk" ELSE "initErr"]
  /\ UNCHANGED <<e, sup, acc, log, once, rd, parsed, wrote, sp, sc, child>>

\* SetParser (lines 55-65): the reader chosen for a parser
OutputReaderAnyInflux(parser) ==
  IF parser \in {"RunningParser(influx)", "influx"} THEN "cmdReadOutStream"
  ELSE "cmdReadOut"

OutputReader(parser) ==
  IF parser = "RunningParser(influx)" THEN "cmdReadOutStream" ELSE "cmdReadOut"

\* the configuration loader attaches the parser once, before Start
SetParser(i) ==
  /\ life[i] \in {"new", "initOk"}
  /\ e[i].parser = "nil"
  /\ \E parser \in Parsers :
       e' = [e EXCEPT ![i].parser = parser, ![i].outputReader = OutputReader(parser)]
  /\ UNCHANGED <<life, ret, sup, acc, log, once, rd, parsed, wrote, sp, sc, child>>

\* SetParser called again, at any later time: the method has no guard
SetParserAgain(i) ==
  /\ life[i] \in {"initOk", "startErr", "running", "stopped"}
  /\ e[i].parser # "nil"
  /\ \E parser \in Parsers :
       /\ parser # e[i].parser
       /\ e' = [e EXCEPT ![i].parser = parser, ![i].outputReader = OutputReader(parser)]
  /\ UNCHANGED <<life, ret, sup, acc, log, once, rd, parsed, wrote, sp, sc, child>>

\* the host starts only an instance whose Init returned nil
HostMayStart(i) == life[i] = "initOk" /\ e[i].parser # "nil"

\* the supervisor's contract: New and handle.Start each return a handle or
\* nothing but an error (TRUE: no error)
NewResults(command) == BOOLEAN

StartResults(p) == BOOLEAN

\* process.New(e.Command, e.Environment) when it succeeds: nothing configured.
\* Signal is the signal the handle was told to stop the child with ("none":
\* it was told nothing).
New(command) ==
  [nil |-> FALSE, Command |-> command, ReadStdoutFn |-> "nil", ReadStderrFn |-> "nil",
   RestartDelay |-> 0, StopOnError |-> FALSE, Log |-> "nil", Signal |-> "none"]

\* fmt.Errorf(msg + ": %w", err)
Errorf(msg, err) == [msg |-> msg, err |-> err]

NilError == Errorf(ErrNil, ErrNil)

\* lines 74-78: what Start sets on the handle before starting it
Wire(x, p) ==
  [p EXCEPT !.ReadStdoutFn = x.outputReader, !.ReadStderrFn = "cmdReadErr",
            !.RestartDelay = x.RestartDelay, !.StopOnError = x.StopOnError,
            !.Log = x.Log]

\* line 83: the test guarding the warning
HintAnyArg(command) == \E k \in 1..Len(command) : Contains(command[k], " ")

HintApplies(command) == Len(command) = 1 /\ Contains(command[1], " ")

HintMsg == "The inputs.execd Command contained spaces but no arguments."

SupCall(call, handle, ok) == [call |-> call, handle |-> handle, ok |-> ok]

\* what the child of a started process will write, in the integrated models
\* (the readers alone are run over all inputs in the focused specifications)
LifeStdout == {<<"m", NL>>}

LifeFaults == {0}

LifeDecoded == {<<"metric">>, <<"error", "metric">>}

LifeStderr == {<< <<"W", "!", " ", "x">> >>}

\* Start, process.New failed (lines 68-73)
StartNewFails(i) ==
  /\ HostMayStart(i)
  /\ FALSE \in NewResults(e[i].Command)
  /\ e' = [e EXCEPT ![i].acc = "acc", ![i].process = NoProcess]
  /\ sup' = [sup EXCEPT ![i] = Append(@, SupCall("New", NoProcess, FALSE))]
  /\ ret' = [ret EXCEPT ![i].start = Errorf("error creating new process", "New")]
  /\ life' = [life EXCEPT ![i] = "startErr"]
  /\ UNCHANGED <<acc, log, once, rd, parsed, wrote, sp, sc, child>>

\* Start, process.Start failed (lines 68-89)
StartStartFails(i) ==
  /\ HostMayStart(i)
  /\ TRUE \in NewResults(e[i].Command)
  /\ LET p == Wire(e[i], New(e[i].Command))
     IN /\ FALSE \in StartResults(p)
        /\ e' = [e EXCEPT ![i].acc = "acc", ![i].process = p]
        /\ sup' = [sup EXCEPT ![i] =
                     @ \o <<SupCall("New", New(e[i].Command), TRUE),
                            SupCall("Start", p, FALSE)>>]
  /\ log' = [log EXCEPT ![i] =
               IF HintApplies(e[i].Command) THEN Append(@, LogCall("Warn", HintMsg))
               ELSE @]
  /\ ret' = [ret EXCEPT ![i].start = Errorf("failed to start process", "Start")]
  /\ life' = [life EXCEPT ![i] = "startErr"]
  /\ UNCHANGED <<acc, once, rd, parsed, wrote, sp, sc, child>>

\* no child yet; a child that wrote all it had and left; a child just started
NoChild == [runs |-> 0, out |-> FALSE, err |-> FALSE]

ExitedChild == [runs |-> 1, out |-> FALSE, err |-> FALSE]

NewChild(c) == [runs |-> c.runs + 1, out |-> TRUE, err |-> TRUE]

\* the supervisor runs a child for handle p and calls p's readers on the new
\* pipes: p.ReadStdoutFn (cmdReadOut or cmdReadOutStream) and p.ReadStderrFn
Spawn(i, p) ==
  /\ child' = [child EXCEPT ![i] = NewChild(@)]
  /\ IF p.ReadStdoutFn = "cmdReadOut"
     THEN /\ \E out \in LifeStdout, faults \in LifeFaults :
               /\ rd' = [rd EXCEPT ![i] = NewReaderSize(out, e[i].BufferSize, faults)]
               /\ wrote' = [wrote EXCEPT ![i] = out]
          /\ UNCHANGED sp
     ELSE /\ \E out \in LifeDecoded :
               sp' = [sp EXCEPT ![i] = NewStreamParser(out)]
          /\ UNCHANGED <<rd, wrote>>
  /\ IF p.ReadStderrFn = "cmdReadErr"
     THEN \E lines \in LifeStderr, err \in {ErrNil, ErrIO} :
            sc' = [sc EXCEPT ![i] = NewScanner(lines, err)]
     ELSE UNCHANGED sc
  /\ parsed' = [parsed EXCEPT ![i] = <<>>]

\* Start succeeded (lines 68-91): the supervisor runs the child and calls the
\* handle's two readers on its pipes
StartOk(i) ==
  /\ HostMayStart(i)
  /\ TRUE \in NewResults(e[i].Command)
  /\ LET p == Wire(e[i], New(e[i].Command))
     IN /\ TRUE \in StartResults(p)
        /\ e' = [e EXCEPT ![i].acc = "acc", ![i].process = p]
        /\ sup' = [sup EXCEPT ![i] =
                     @ \o <<SupCall("New", New(e[i].Command), TRUE),
                            SupCall("Start", p, TRUE)>>]
        /\ Spawn(i, p)
  /\ ret' = [ret EXCEPT ![i].start = NilError]
  /\ life' = [life EXCEPT ![i] = "running"]
  /\ UNCHANGED <<acc, log, once>>

Start(i) == StartNewFails(i) \/ StartStartFails(i) \/ StartOk(i)

\* where the host stands after e.process.Stop(): on a nil handle the call
\* either panics in the supervisor's method or returns
AfterStop(p) == IF p.nil THEN {"stopped", "panicked"} ELSE {"stopped"}

\* Stop (lines 94-96): e.process.Stop() on whatever e.process holds, without a
\* test; the host may call it once Init has returned nil, whether or not Start
\* was called or succeeded.  The call asks the supervisor to end the child and
\* touches neither reader.
Stop(i) ==
  /\ life[i] \in {"initOk", "startErr", "running"}
  /\ sup' = [sup EXCEPT ![i] = Append(@, SupCall("Stop", e[i].process, ~e[i].process.nil))]
  /\ \E l \in AfterStop(e[i].process) : life' = [life EXCEPT ![i] = l]
  /\ UNCHANGED <<e, ret, acc, log, once, rd, parsed, wrote, sp, sc, child>>

\* the write end of one of the child's pipes closes: the child closes it or
\* exits, or the supervisor ends the child after Stop
ClosePipe(i) ==
  /\ life[i] \in {"running", "stopped"}
  /\ \/ child[i].out /\ child' = [child EXCEPT ![i].out = FALSE]
     \/ child[i].err /\ child' = [child EXCEPT ![i].err = FALSE]
  /\ UNCHANGED <<e, life, ret, sup, acc, log, once, rd, parsed, wrote, sp, sc>>

\* both readers of instance i have returned
ReadersReturned(i) ==
  /\ rd[i].pc \in {"idle", "done"}
  /\ sp[i].pc \in {"idle", "done"}
  /\ sc[i].pc \in {"idle", "done"}

\* the supervisor restarts the child of a handle that was not stopped, once the
\* child is gone and the readers have returned, and calls the handle's readers
\* on the new pipes
Restart(i) ==
  /\ life[i] = "running"
  /\ ~child[i].out /\ ~child[i].err
  /\ ReadersReturned(i)
  /\ child[i].runs < MaxRuns
  /\ Spawn(i, e[i].process)
  /\ UNCHANGED <<e, life, ret, sup, acc, log, once>>

\* ----------------------------------------------------------- specifications
\* nothing returned yet
NotCalled == Errorf("not called", "not called")

NoRet == [init |-> "not called", start |-> NotCalled]

\* the struct the "execd" constructor registers (lines 178-185), given a command
DefaultExecd == Execd(<< <<"p">> >>, 1, "none", 10, FALSE)

Quiet ==
  /\ acc = [i \in Inst |-> <<>>]
  /\ log = [i \in Inst |-> <<>>]
  /\ once = [done |-> FALSE]
  /\ parsed = [i \in Inst |-> <<>>]

\* one freshly configured instance, before Init; the others take no part
Init ==
  /\ \E x \in Configs : e = [i \in Inst |-> IF i = 1 THEN x ELSE DefaultExecd]
  /\ life = [i \in Inst |-> IF i = 1 THEN "new" ELSE "absent"]
  /\ ret = [i \in Inst |-> NoRet]
  /\ sup = [i \in Inst |-> <<>>]
  /\ Quiet
  /\ rd = [i \in Inst |-> IdleReader]
  /\ wrote = [i \in Inst |-> <<>>]
  /\ sp = [i \in Inst |-> IdleStream]
  /\ sc = [i \in Inst |-> IdleScanner]
  /\ child = [i \in Inst |-> NoChild]

Next ==
  \E i \in Inst :
    \/ ExecdInit(i)
    \/ SetParser(i)
    \/ Start(i)
    \/ Stop(i)
    \/ ClosePipe(i)
    \/ cmdReadOut(i)
    \/ cmdReadOutStream(i)
    \/ cmdReadErr(i)

Spec == Init /\ [][Next]_vars

\* one instance with the default configuration, before Init
InitLife ==
  /\ e = [i \in Inst |-> DefaultExecd]
  /\ life = [i \in Inst |-> IF i = 1 THEN "new" ELSE "absent"]
  /\ ret = [i \in Inst |-> NoRet]
  /\ sup = [i \in Inst |-> <<>>]
  /\ Quiet
  /\ rd = [i \in Inst |-> IdleReader]
  /\ wrote = [i \in Inst |-> <<>>]
  /\ sp = [i \in Inst |-> IdleStream]
  /\ sc = [i \in Inst |-> IdleScanner]
  /\ child = [i \in Inst |-> NoChild]

\* a handle that is never stopped: the host may call SetParser again at any
\* time, and the supervisor restarts the child when it is gone
NextSelect ==
  \E i \in Inst :
    \/ ExecdInit(i)
    \/ SetParser(i)
    \/ SetParserAgain(i)
    \/ Start(i)
    \/ ClosePipe(i)
    \/ Restart(i)
    \/ cmdReadOut(i)
    \/ cmdReadOutStream(i)
    \/ cmdReadErr(i)

SpecSelect == InitLife /\ [][NextSelect]_vars

\* The lifecycle with its scheduling.  Each reader runs in a goroutine of its
\* own, so a step of a reader that stays possible is taken; a call of
\* e.parser.Parse is the parser's and need not return.  Once Stop was called
\* the supervisor ends the child, which closes the pipes that are still open.
Fairness ==
  \A i \in Inst :
    /\ WF_vars(ReadBytesLine(i))
    /\ WF_vars(ReadBytesErr(i))
    /\ WF_vars(ReadBytesFull(i))
    /\ WF_vars(ReadBytesFill(i))
    /\ WF_vars(OnceDo(i))
    /\ WF_vars(OnceDoSlow(i))
    /\ WF_vars(cmdReadOutStream(i))
    /\ WF_vars(cmdReadErr(i))
    /\ WF_vars(life[i] = "stopped" /\ ClosePipe(i))

NextLive ==
  \E i \in Inst :
    \/ ExecdInit(i)
    \/ SetParser(i)
    \/ Start(i)
    \/ Stop(i)
    \/ ClosePipe(i)
    \/ cmdReadOut(i)
    \/ cmdReadOutStream(i)
    \/ cmdReadErr(i)

SpecLive == InitLife /\ [][NextLive]_vars /\ Fairness

\* ---------------------------------------------------- focused specifications
\* The instances in S right after a successful Start with `parser` attached
\* (the state StartOk leaves), the others taking no part.
\* The child has written what it had to write and is gone.
StartedExecd(x, parser) ==
  LET y == [x EXCEPT !.parser = parser, !.outputReader = OutputReader(parser)]
  IN [y EXCEPT !.acc = "acc", !.process = Wire(y, New(y.Command))]

Started(S, x, parser) ==
  /\ e = [i \in Inst |-> IF i \in S THEN StartedExecd(x, parser) ELSE DefaultExecd]
  /\ life = [i \in Inst |-> IF i \in S THEN "running" ELSE "absent"]
  /\ ret = [i \in Inst |-> IF i \in S THEN [init |-> ErrNil, start |-> NilError] ELSE NoRet]
  /\ sup = [i \in Inst |->
              IF i \in S
              THEN <<SupCall("New", New(x.Command), TRUE),
                     SupCall("Start", StartedExecd(x, parser).process, TRUE)>>
              ELSE <<>>]
  /\ child = [i \in Inst |-> IF i \in S THEN ExitedChild ELSE NoChild]
  /\ Quiet

Streams == SeqsUpTo(Bytes, MaxStream)

\* cmdReadOut alone: instance 1 reads any stdout stream through any buffer
\* size, in any chunking, the pipe failing up to MaxReadErrs times
InitBatch ==
  /\ \E b \in BufferSizes : Started({1}, [DefaultExecd EXCEPT !.BufferSize = b], "other")
  /\ \E out \in Streams, faults \in 0..MaxReadErrs :
       /\ rd = [i \in Inst |->
                  IF i = 1 THEN NewReaderSize(out, e[1].BufferSize, faults)
                  ELSE IdleReader]
       /\ wrote = [i \in Inst |-> IF i = 1 THEN out ELSE <<>>]
  /\ sp = [i \in Inst |-> IdleStream]
  /\ sc = [i \in Inst |-> IdleScanner]

NextBatch == \E i \in Inst : cmdReadOut(i)

SpecBatch == InitBatch /\ [][NextBatch]_vars

\* every instance runs cmdReadOut at once, sharing the package's sync.Once
OnceStreams == {<<"m", NL>>}

InitOnce ==
  /\ Started(Inst, DefaultExecd, "other")
  /\ wrote \in [Inst -> OnceStreams]
  /\ rd = [i \in Inst |-> NewReaderSize(wrote[i], e[i].BufferSize, 0)]
  /\ sp = [i \in Inst |-> IdleStream]
  /\ sc = [i \in Inst |-> IdleScanner]

NextOnce == \E i \in Inst : cmdReadOut(i)

SpecOnce == InitOnce /\ [][NextOnce]_vars

\* cmdReadOutStream alone: Next() returns any sequence of results, then EOF
InitStream ==
  /\ Started({1}, DefaultExecd, "RunningParser(influx)")
  /\ \E out \in SeqsUpTo(NextResults, MaxEvents) :
       sp = [i \in Inst |-> IF i = 1 THEN NewStreamParser(out) ELSE IdleStream]
  /\ rd = [i \in Inst |-> IdleReader]
  /\ wrote = [i \in Inst |-> <<>>]
  /\ sc = [i \in Inst |-> IdleScanner]

NextStream == \E i \in Inst : cmdReadOutStream(i)

SpecStream == InitStream /\ [][NextStream]_vars

\* stderr lines: nothing, a letter, the two-character token, the token with its
\* separator, each bare or followed by text; and a line holding a double quote
Letters == {"E", "W", "I", "D", "T", "x"}

Heads ==
  {<<>>} \cup {<<l>> : l \in Letters} \cup {<<l, "!">> : l \in Letters}
         \cup {Prefix(l) : l \in Letters}

StderrLines == {h \o t : h \in Heads, t \in {<<>>, <<"x">>}} \cup {<<"\"">>}

\* cmdReadErr alone: any lines, the scan ending at EOF or with an error
InitErr ==
  /\ Started({1}, DefaultExecd, "other")
  /\ \E lines \in SeqsUpTo(StderrLines, MaxLines), err \in {ErrNil, ErrIO} :
       sc = [i \in Inst |-> IF i = 1 THEN NewScanner(lines, err) ELSE IdleScanner]
  /\ rd = [i \in Inst |-> IdleReader]
  /\ wrote = [i \in Inst |-> <<>>]
  /\ sp = [i \in Inst |-> IdleStream]

NextErr == \E i \in Inst : cmdReadErr(i)

SpecErr == InitErr /\ [][NextErr]_vars

\* cmdReadErr over lines of any length: a few texts, each as it is or followed
\* by MaxScanTokenSize more bytes
ScanTexts == {<<>>, <<"x">>, Prefix("W") \o <<"x">>}

Pads == {0, MaxScanTokenSize}

InitScan ==
  /\ Started({1}, DefaultExecd, "other")
  /\ \E lines \in SeqsUpTo(ScanTexts, MaxLines), err \in {ErrNil, ErrIO} :
       \E pad \in [1..Len(lines) -> Pads] :
         sc = [i \in Inst |-> IF i = 1 THEN NewScannerPadded(lines, pad, err)
                                       ELSE IdleScanner]
  /\ rd = [i \in Inst |-> IdleReader]
  /\ wrote = [i \in Inst |-> <<>>]
  /\ sp = [i \in Inst |-> IdleStream]

NextScan == \E i \in Inst : cmdReadErr(i)

SpecScan == InitScan /\ [][NextScan]_vars

\* =================================================================== claims
\* ------------------------------------------------- vocabulary of the claims
\* the newline-terminated records of a byte stream, in order (an unterminated
\* tail is no record)
RECURSIVE Records(_)
Records(s) ==
  IF \A k \in 1..Len(s) : s[k] # NL THEN <<>>
  ELSE LET k == CHOOSE j \in 1..Len(s) : s[j] = NL /\ \A h \in 1..(j - 1) : s[h] # NL
       IN <<SubSeq(s, 1, k)>> \o Records(SubSeq(s, k + 1, Len(s)))

RECURSIVE Flat(_)
Flat(ss) == IF ss = <<>> THEN <<>> ELSE Head(ss) \o Flat(Tail(ss))

Complete(s) == s = <<>> \/ s[Len(s)] = NL

IsPrefix(a, b) == Len(a) <= Len(b) /\ a = SubSeq(b, 1, Len(a))

\* the byte slices handed to Parse, in call order
Datas(p) == [c \in 1..Len(p) |-> p[c].data]

IsMetric(x) == x.op = "AddMetric"

IsError(x) == x.op = "AddError"

\* the metrics the parser returned, call by call, each call's in its own order
Returned(p) == Flat([c \in 1..Len(p) |-> [k \in 1..p[c].n |-> AddMetric(c, k)]])

Count(a, x) == Cardinality({k \in 1..Len(a) : a[k] = x})

\* C1: when stdout is N complete newline-terminated records and no read fails,
\* then for every buffer size and every chunking the parser is called once per
\* record, with the record's bytes including its newline, in stream order (a
\* prefix of the records while the loop runs, all N when it has ended), and the
\* sink holds exactly the metrics the parser returned, each once, in order.
C1_RecordsInOrder ==
  \A i \in Inst :
    (Complete(wrote[i]) /\ rd[i].ioErrs = 0) =>
       /\ IsPrefix(Datas(parsed[i]), Records(wrote[i]))
       /\ rd[i].pc = "done" => Datas(parsed[i]) = Records(wrote[i])
       /\ SelectSeq(acc[i], IsMetric) = Returned(parsed[i])

\* two records, the first longer than the buffer, both parsed and forwarded
C1_Witness ==
  /\ rd[1].pc = "done"
  /\ rd[1].size = 1
  /\ rd[1].ioErrs = 0
  /\ wrote[1] = <<"m", NL, NL>>
  /\ Datas(parsed[1]) = << <<"m", NL>>, <<NL>> >>
  /\ parsed[1][1].n = MaxMetrics
  /\ parsed[1][2].n = MaxMetrics
  /\ Len(SelectSeq(acc[1], IsMetric)) = 2 * MaxMetrics

\* C2: when the loop has ended, every byte the child wrote has been handed to
\* the parser as part of some record.
C2_NoByteLost ==
  \A i \in Inst : rd[i].pc = "done" => Flat(Datas(parsed[i])) = wrote[i]

\* C4: a record the parser fails on gets exactly one error in the sink (and a
\* record it accepts none), and the loop goes on: when it has ended without a
\* read error, every later record of the stream was parsed and each metric
\* returned for it is in the sink once.
C4_ParseErrorContinues ==
  \A i \in Inst :
    \A c \in 1..Len(parsed[i]) :
      /\ Count(acc[i], AddError("parse error", c)) = IF parsed[i][c].err THEN 1 ELSE 0
      /\ (parsed[i][c].err /\ rd[i].pc = "done" /\ rd[i].ioErrs = 0) =>
           \A d \in (c + 1)..Len(Records(wrote[i])) :
             /\ d <= Len(parsed[i])
             /\ parsed[i][d].data = Records(wrote[i])[d]
             /\ \A k \in 1..parsed[i][d].n : Count(acc[i], AddMetric(d, k)) = 1

\* a failed record followed by a record whose metrics reached the sink
C4_Witness ==
  /\ rd[1].pc = "done"
  /\ rd[1].ioErrs = 0
  /\ Len(parsed[1]) = 2
  /\ parsed[1][1].err
  /\ ~parsed[1][2].err
  /\ parsed[1][2].n = MaxMetrics
  /\ acc[1][Len(acc[1])] = AddMetric(2, MaxMetrics)

\* the Debug(NoMetricsCreated) calls over all instances' log sinks
Notices ==
  UNION {{<<i, k>> : k \in {j \in 1..Len(log[i]) :
                              log[i][j] = LogCall("Debug", NoMetricsCreatedMsg)}} :
         i \in Inst}

\* instance i has a zero-metric Parse result behind it, once.Do included
ZeroProcessed(i) ==
  \E c \in 1..Len(parsed[i]) :
    /\ parsed[i][c].n = 0
    /\ c < Len(parsed[i]) \/ rd[i].pc \notin {"once", "doSlow"}

\* C3: over all instances reading at once, in every interleaving, the
\* zero-metrics notice is logged at most once in total, and exactly once as soon
\* as some instance has processed a zero-metric result.
C3_NoticeOnce ==
  /\ Cardinality(Notices) <= 1
  /\ (\E i \in Inst : ZeroProcessed(i)) => Cardinality(Notices) = 1

\* every instance has processed a zero-metric result; one notice in total
C3_Witness ==
  /\ \A i \in Inst : rd[i].pc = "done" /\ ZeroProcessed(i)
  /\ Cardinality(Notices) = 1

\* what the loop must have told the sink after the first c results of src
StreamExpected(src, c) ==
  [k \in 1..c |->
     CASE src[k] = "metric" -> AddMetric(k, 1)
       [] src[k] = "ParseError" -> AddError("ParseError", k)
       [] OTHER -> AddError("stream", k)]

\* C5: once Next() has returned the end-of-stream sentinel the loop has ended,
\* no error was reported for the sentinel, and the sink holds every metric
\* decoded before it exactly once, in decode order.
C5_EOFEndsQuietly ==
  \A i \in Inst :
    sp[i].calls > Len(sp[i].src) =>
      /\ sp[i].pc = "done"
      /\ sp[i].calls = Len(sp[i].src) + 1
      /\ Count(acc[i], AddError("stream", sp[i].calls)) = 0
      /\ Len(SelectSeq(acc[i], IsError)) =
           Cardinality({k \in 1..Len(sp[i].src) : sp[i].src[k] = "ParseError"})
      /\ SelectSeq(acc[i], IsMetric) =
           SelectSeq(StreamExpected(sp[i].src, Len(sp[i].src)), IsMetric)

\* metrics around a parse error, then the sentinel
C5_Witness ==
  /\ sp[1].src = <<"metric", "ParseError", "metric">>
  /\ sp[1].calls = 4
  /\ sp[1].pc = "done"
  /\ SelectSeq(acc[1], IsMetric) = <<AddMetric(1, 1), AddMetric(3, 1)>>

\* C6: once Next() has returned an error that is neither the sentinel nor a
\* parse error, the loop has ended at that call, the sink got exactly one error
\* for it, and nothing was told to the sink after it, whatever the stream
\* still holds.
C6_FatalEndsLoop ==
  \A i \in Inst :
    \A c \in 1..sp[i].calls :
      (c <= Len(sp[i].src) /\ sp[i].src[c] = "error") =>
        /\ sp[i].pc = "done"
        /\ sp[i].calls = c
        /\ acc[i] = StreamExpected(sp[i].src, c)
        /\ Count(acc[i], AddError("stream", c)) = 1

\* a fatal error with a decodable metric left behind it
C6_Witness ==
  /\ sp[1].src = <<"metric", "error", "metric">>
  /\ sp[1].pc = "done"
  /\ sp[1].out = <<"metric">>
  /\ acc[1] = <<AddMetric(1, 1), AddError("stream", 2)>>

\* the routing as the table states it: level by the first letter when the line
\* starts with letter, "!", " ", and the text after those three characters
Levels == [E |-> "Error", W |-> "Warn", I |-> "Info", D |-> "Debug", T |-> "Trace"]

Routed(line) ==
  IF /\ Len(line) >= 3
     /\ line[1] \in DOMAIN Levels
     /\ line[2] = "!"
     /\ line[3] = " "
  THEN [level |-> Levels[line[1]], msg |-> SubSeq(line, 4, Len(line))]
  ELSE [level |-> "Error", msg |-> StderrPrefix \o Quote(line)]

\* C7: every scanned stderr line has produced exactly one log call, in line
\* order: a line starting "E! ", "W! ", "I! ", "D! " or "T! " at the matching
\* level without those three characters, any other line (the token without
\* its separator included) at Error as stderr: "<line, quoted>".
C7_StderrRouted ==
  \A i \in Inst :
    /\ sc[i].n = Len(sc[i].src) - Len(sc[i].lines)
    /\ log[i] = [k \in 1..sc[i].n |-> Routed(sc[i].src[k])]

\* a prefixed line and a token without separator, both routed
C7_Witness ==
  /\ sc[1].pc = "done"
  /\ sc[1].src = << <<"W", "!", " ", "x">>, <<"E", "!", "x">> >>
  /\ log[1] = << LogCall("Warn", <<"x">>),
                 LogCall("Error", StderrPrefix \o <<"\"", "E", "!", "x", "\"">>) >>

\* C8: Init returns an error exactly when the command list is empty, and an
\* instance whose Init failed has no supervisor call and no Start behind it.
C8_InitRejectsEmpty ==
  \A i \in Inst :
    ret[i].init # "not called" =>
      /\ ret[i].init # ErrNil <=> Len(e[i].Command) = 0
      /\ ret[i].init # ErrNil =>
           /\ sup[i] = <<>>
           /\ ret[i].start = NotCalled
           /\ e[i].process.nil
           /\ life[i] = "initErr"

\* Init failed on an instance that has its parser and could otherwise start
C8_Witness ==
  /\ ret[1].init = "no command specified"
  /\ e[1].parser # "nil"
  /\ e[1].Command = <<>>
  /\ sup[1] = <<>>

HintLogged(i) == \E k \in 1..Len(log[i]) : log[i][k] = LogCall("Warn", HintMsg)

\* one element, and a space in it
MisSplit(command) == Len(command) = 1 /\ \E k \in 1..Len(command[1]) : command[1][k] = " "

FailedAt(i, call) ==
  \E k \in 1..Len(sup[i]) : sup[i][k].call = call /\ ~sup[i][k].ok

\* C9 as stated: whenever Start failed, at handle construction or at handle
\* start, it returned a wrapped error and logged the hint if the command is one
\* element holding a space; the hint is never logged otherwise.
C9_HintOnAnyFailure ==
  \A i \in Inst :
    /\ (FailedAt(i, "New") \/ FailedAt(i, "Start")) =>
         /\ ret[i].start.err # ErrNil
         /\ MisSplit(e[i].Command) => HintLogged(i)
    /\ HintLogged(i) =>
         /\ FailedAt(i, "New") \/ FailedAt(i, "Start")
         /\ Len(e[i].Command) = 1

\* C9 amended: a failed Start returns a wrapped error naming the failing step;
\* the hint is logged, once, exactly when handle.Start() failed and the command
\* is one element holding a space (never when process.New failed, when Start
\* succeeded, or when the command has several elements).
C9_HintOnStartFailure ==
  \A i \in Inst :
    /\ FailedAt(i, "New") => ret[i].start = Errorf("error creating new process", "New")
    /\ FailedAt(i, "Start") => ret[i].start = Errorf("failed to start process", "Start")
    /\ HintLogged(i) <=> (FailedAt(i, "Start") /\ MisSplit(e[i].Command))
    /\ Count(log[i], LogCall("Warn", HintMsg)) <= 1

\* handle.Start() failed on a one-element command holding a space
C9_Witness ==
  /\ FailedAt(1, "Start")
  /\ e[1].Command = << <<"p", " ", "x">> >>
  /\ log[1] = <<LogCall("Warn", HintMsg)>>
  /\ ret[1].start = Errorf("failed to start process", "Start")

\* C10: the handle given to handle.Start() carries the chosen stdout reader,
\* the stderr router, and the configured restart delay, stop-on-error flag and
\* signal.
C10_HandleCarriesConfig ==
  \A i \in Inst :
    \A k \in 1..Len(sup[i]) :
      sup[i][k].call = "Start" =>
        /\ sup[i][k].handle.ReadStdoutFn = e[i].outputReader
        /\ sup[i][k].handle.ReadStderrFn = "cmdReadErr"
        /\ sup[i][k].handle.RestartDelay = e[i].RestartDelay
        /\ sup[i][k].handle.StopOnError = e[i].StopOnError
        /\ sup[i][k].handle.Signal = e[i].Signal

\* the ReadBytes returns of instance i with an error other than EOF / closed
FailedReads(i) ==
  {k \in 1..Len(rd[i].reads) : rd[i].reads[k].err \notin {ErrNil, ErrEOF, ErrClosed}}

\* the ReadBytes returns of instance i with EOF or closed
EndReads(i) ==
  {k \in 1..Len(rd[i].reads) : rd[i].reads[k].err \in {ErrEOF, ErrClosed}}

\* C14: a ReadBytes return with EOF or stream-closed ends the batch loop and
\* adds no error to the sink; every return with another error adds exactly one
\* "error reading stdout" and the loop goes on.  So the loop has ended exactly
\* when its last read returned EOF or closed, and no read follows such a one.
C14_ReadErrorOutcomes ==
  \A i \in Inst :
    /\ Count(acc[i], AddError("error reading stdout", 0)) = Cardinality(FailedReads(i))
    /\ rd[i].pc = "done" <=> EndReads(i) # {}
    /\ \A k \in EndReads(i) : k = Len(rd[i].reads)
    /\ \A k \in FailedReads(i) : rd[i].pc = "done" => k < Len(rd[i].reads)

\* a read failed with EIO, was reported once, a later record was still parsed,
\* and the loop ended at EOF
C14_Witness ==
  /\ rd[1].pc = "done"
  /\ Len(rd[1].reads) = 3
  /\ rd[1].reads[1] = ReadResult(<<"m">>, ErrIO)
  /\ rd[1].reads[2] = ReadResult(<<"m", NL>>, ErrNil)
  /\ rd[1].reads[3].err = ErrEOF
  /\ Count(acc[1], AddError("error reading stdout", 0)) = 1
  /\ Len(parsed[1]) = 1

\* C15: a record whose Parse returned an error has no metric forwarded and
\* does not reach once.Do: after the error is reported the loop is back at
\* ReadBytes.
C15_ParseErrorSkipsRest ==
  \A i \in Inst :
    \A c \in 1..Len(parsed[i]) :
      parsed[i][c].err =>
        /\ \A k \in 1..MaxMetrics : Count(acc[i], AddMetric(c, k)) = 0
        /\ c = Len(parsed[i]) => rd[i].pc \notin {"once", "doSlow"}

\* C20: every slice handed to Parse (and the one about to be) is a ReadBytes
\* return without error, ends with a newline and holds no other newline; the
\* returns, in order, followed by what the reader still holds and what is left
\* in the pipe, are the bytes the child wrote, so the bytes returned with an
\* error are in no parsed slice, and the parser call after a non-EOF error gets
\* exactly the bytes behind the discarded ones up to the next newline; every
\* metric in the sink comes from a Parse call.
C20_ParsedSlicesAreRecords ==
  \A i \in Inst :
    LET r == rd[i].reads
        IsRecord(x) == x.err = ErrNil
        handed == [k \in 1..Len(SelectSeq(r, IsRecord)) |-> SelectSeq(r, IsRecord)[k].data]
    IN /\ \A k \in 1..Len(r) :
            IF r[k].err = ErrNil
            THEN IndexByte(r[k].data, NL) = Len(r[k].data) /\ r[k].data # <<>>
            ELSE IndexByte(r[k].data, NL) = 0
       /\ handed = IF rd[i].pc = "parse"
                   THEN Append(Datas(parsed[i]), rd[i].data)
                   ELSE Datas(parsed[i])
       /\ Flat([k \in 1..Len(r) |-> r[k].data]) \o rd[i].frags \o rd[i].buf \o rd[i].pipe
            = wrote[i]
       /\ \A k \in 1..Len(acc[i]) :
            IsMetric(acc[i][k]) =>
              /\ acc[i][k].ref[1] \in 1..Len(parsed[i])
              /\ acc[i][k].ref[2] \in 1..parsed[i][acc[i][k].ref[1]].n

\* "m" came back with EIO and was discarded; the next Parse got only "\n"
C20_Witness ==
  /\ wrote[1] = <<"m", NL>>
  /\ Len(rd[1].reads) >= 2
  /\ rd[1].reads[1] = ReadResult(<<"m">>, ErrIO)
  /\ rd[1].reads[2] = ReadResult(<<NL>>, ErrNil)
  /\ Len(parsed[1]) = 1
  /\ parsed[1][1].data = <<NL>>
  /\ parsed[1][1].n = MaxMetrics

\* no Next() before call c returned an error that is not a parse error
NoFatalBefore(src, c) == \A k \in 1..(c - 1) : k <= Len(src) => src[k] # "error"

\* C16: a Next() that returned a parse-typed error put exactly one error into
\* the sink and did not end the loop: another Next() follows it before the loop
\* is done, every metric decoded behind it (with no fatal error in between) is
\* in the sink once when the loop has ended, and the loop has ended only at the
\* end-of-stream sentinel or at a non-parse error.
C16_StreamParseErrorContinues ==
  \A i \in Inst :
    LET src == sp[i].src
    IN /\ \A c \in 1..Min(sp[i].calls, Len(src)) :
            src[c] = "ParseError" =>
              /\ Count(acc[i], AddError("ParseError", c)) = 1
              /\ sp[i].pc = "done" => sp[i].calls > c
              /\ \A d \in (c + 1)..Len(src) :
                   (sp[i].pc = "done" /\ src[d] = "metric" /\ NoFatalBefore(src, d)) =>
                     Count(acc[i], AddMetric(d, 1)) = 1
       /\ sp[i].pc = "done" =>
            \/ sp[i].calls = Len(src) + 1
            \/ sp[i].calls <= Len(src) /\ src[sp[i].calls] = "error"

\* two parse errors, then a metric that reached the sink, then the sentinel
C16_Witness ==
  /\ sp[1].src = <<"ParseError", "ParseError", "metric">>
  /\ sp[1].pc = "done"
  /\ sp[1].calls = 4
  /\ acc[1] = <<AddError("ParseError", 1), AddError("ParseError", 2), AddMetric(3, 1)>>

\* the first line of scanner s longer than the token limit allows (0: none)
FirstOverlong(s) ==
  LET over == {k \in 1..Len(s.src) : Len(s.src[k]) + s.pad[k] >= MaxScanTokenSize}
  IN IF over = {} THEN 0 ELSE CHOOSE k \in over : \A j \in over : k <= j

\* the lines of scanner s in front of the point where scanning fails or ends
BeforeFailure(s) == IF FirstOverlong(s) = 0 THEN Len(s.src) ELSE FirstOverlong(s) - 1

StderrErrors(i) == Count(acc[i], AddError("error reading stderr", 0))

\* C18: while the router runs it has reported no error; when it has ended, the
\* sink holds no "error reading stderr" if the scan ended at end of stream and
\* exactly one if it ended with a scanner error, and the log holds the routing
\* of the lines in front of the failure point and of no line behind it.
C18_StderrEnds ==
  \A i \in Inst :
    /\ sc[i].pc = "scan" => StderrErrors(i) = 0
    /\ sc[i].n <= BeforeFailure(sc[i])
    /\ sc[i].pc = "done" =>
         /\ StderrErrors(i) =
              IF FirstOverlong(sc[i]) = 0 /\ sc[i].err = ErrNil THEN 0 ELSE 1
         /\ log[i] = [k \in 1..BeforeFailure(sc[i]) |-> Routed(sc[i].src[k])]
         /\ acc[i] = [k \in 1..StderrErrors(i) |-> AddError("error reading stderr", 0)]

\* the scan failed at the first of two lines: one error, and neither that line
\* nor the short line behind it was routed
C18_Witness ==
  /\ sc[1].pc = "done"
  /\ Len(sc[1].src) = 2
  /\ sc[1].pad[2] = 0
  /\ FirstOverlong(sc[1]) = 1
  /\ sc[1].lines = sc[1].src
  /\ log[1] = <<>>
  /\ acc[1] = <<AddError("error reading stderr", 0)>>

\* C19: whatever the lengths of the stderr lines, when the router has ended on
\* a stream that was read without error, every line has its log call and no
\* scan error was reported.
C19_AnyLineLength ==
  \A i \in Inst :
    (sc[i].pc = "done" /\ sc[i].err = ErrNil) =>
      /\ Len(log[i]) = Len(sc[i].src)
      /\ StderrErrors(i) = 0

\* the stdout reader of the handles instance i gave to a successful Start
StartedWith(i) ==
  {sup[i][k].handle.ReadStdoutFn :
     k \in {j \in 1..Len(sup[i]) : sup[i][j].call = "Start" /\ sup[i][j].ok}}

\* C11: whenever a parser is attached, the chosen reader is the streaming one if
\* the parser is a RunningParser wrapping an influx parser and the batch one for
\* every other parser, an unwrapped influx parser included; and once Start has
\* given the handle its stdout reader, the handle keeps that reader and every
\* stdout loop run for the handle is of that variant, whatever SetParser is
\* called with later and however often the child is restarted.
C11_SelectionFixed ==
  \A i \in Inst :
    /\ e[i].parser # "nil" =>
         e[i].outputReader =
           IF e[i].parser = "RunningParser(influx)" THEN "cmdReadOutStream"
           ELSE "cmdReadOut"
    /\ \A sel \in StartedWith(i) :
         /\ e[i].process.ReadStdoutFn = sel
         /\ rd[i].pc # "idle" => sel = "cmdReadOut"
         /\ sp[i].pc # "idle" => sel = "cmdReadOutStream"
         /\ rd[i].pc # "idle" \/ sp[i].pc # "idle"

\* started with a batch parser, SetParser then called with the streaming one:
\* the restarted child's stdout is still read by cmdReadOut
C11_Witness ==
  /\ child[1].runs = 2
  /\ e[1].parser = "RunningParser(influx)"
  /\ e[1].outputReader = "cmdReadOutStream"
  /\ e[1].process.ReadStdoutFn = "cmdReadOut"
  /\ rd[1].pc = "parse"
  /\ sp[1].pc = "idle"

\* C12: an instance is Running only after a Start that returned no error; after
\* a failed Start it is not Running and no read loop is active; and every Stop
\* was called on a handle that exists, also a Stop before any Start or after a
\* Start that failed at handle construction.
C12_Lifecycle ==
  \A i \in Inst :
    /\ life[i] = "running" => ret[i].start = NilError
    /\ ret[i].start \notin {NilError, NotCalled} =>
         /\ life[i] # "running"
         /\ rd[i].pc = "idle" /\ sp[i].pc = "idle" /\ sc[i].pc = "idle"
    /\ \A k \in 1..Len(sup[i]) : sup[i][k].call = "Stop" => ~sup[i][k].handle.nil

StderrEnded(i) == sc[i].pc \in {"idle", "done"}

StdoutEnded(i) == rd[i].pc \in {"idle", "done"} /\ sp[i].pc \in {"idle", "done"}

\* C13: once Stop was called, the stderr router ends and the stdout loop ends
\* or stands in a call of the parser; and if no call of the parser lasts for
\* ever, both loops end.
C13_StopDrainsLoops ==
  \A i \in Inst :
    /\ (life[i] = "stopped") ~> (StderrEnded(i) /\ (StdoutEnded(i) \/ rd[i].pc = "parse"))
    /\ ([]<>(rd[i].pc # "parse")) => ((life[i] = "stopped") ~> ReadersReturned(i))

\* Stop has returned while both loops still wait on their open pipes
C13_Witness ==
  /\ life[1] = "stopped"
  /\ child[1].out /\ child[1].err
  /\ rd[1].pc = "read"
  /\ rd[1].pipe = <<>> /\ rd[1].buf = <<>>
  /\ sc[1].pc = "scan"
  /\ sc[1].lines = <<>>

\* a step of instance i's stdout loop; a step of its stderr router
StdoutStep(i) ==
  \/ rd[i].pc \notin {"idle", "done"} /\ rd'[i] # rd[i]
  \/ sp[i].pc = "next" /\ sp'[i] # sp[i]

StderrStep(i) == sc[i].pc = "scan" /\ sc'[i] # sc[i]

\* what a step of instance i's reader may change besides the reader itself: the
\* instance's sink and log sink, and sync.Once
OnlySinks(i) ==
  /\ life' = life /\ sup' = sup /\ child' = child /\ e' = e /\ ret' = ret
  /\ \A j \in Inst \ {i} :
       /\ rd'[j] = rd[j] /\ sp'[j] = sp[j] /\ sc'[j] = sc[j]
       /\ acc'[j] = acc[j] /\ log'[j] = log[j]

\* C17: a step of the stdout loop (its last one included) changes neither the
\* stderr router nor the lifecycle, the supervisor's calls or the child, and
\* the other way round; a loop that has work is able to take its step whatever
\* the other loop's state, also when that one has ended.
C17_LoopsIndependent ==
  /\ [](\A i \in Inst :
          /\ (sc[i].pc = "scan" /\ (sc[i].lines # <<>> \/ sc[i].err # ErrNil \/ ~child[i].err))
               => ENABLED cmdReadErr(i)
          /\ (sp[i].pc = "next" /\ (sp[i].out # <<>> \/ ~child[i].out))
               => ENABLED cmdReadOutStream(i)
          /\ (rd[i].pc \in {"parse", "once", "doSlow"}
              \/ (rd[i].pc = "read" /\ (rd[i].pipe # <<>> \/ rd[i].buf # <<>> \/ ~child[i].out)))
               => ENABLED cmdReadOut(i))
  /\ [][\A i \in Inst :
          /\ StdoutStep(i) => (sc'[i] = sc[i] /\ OnlySinks(i))
          /\ StderrStep(i) =>
               (rd'[i] = rd[i] /\ sp'[i] = sp[i] /\ parsed' = parsed /\ OnlySinks(i))]_vars

\* the streaming loop has ended on a fatal error; the instance is Running and
\* the stderr router still has a line to route
C17_Witness ==
  /\ life[1] = "running"
  /\ sp[1].pc = "done"
  /\ sp[1].end = "error"
  /\ sc[1].pc = "scan"
  /\ sc[1].lines # <<>>
  /\ child[1].out

====
